---------------------------- MODULE Spec2Model ----------------------------
(***************************************************************************)
(* A model of the MR_Scripts command-line utilities:                       *)
(*   retype.py      whitespace-to-tab converter                            *)
(*   all_ex_out.py  row-join, key column 2 of A against column 4 of B      *)
(*   get_bac.py     row-join, key column 2 of A against column 3 of B      *)
(*   filter_dat.py  line filter, batch driver and multi-file merge         *)
(*                                                                         *)
(* Text is a sequence of atoms.  An atom is a whitespace character         *)
(* (" ", "\t", "\n", "\r") or a piece of non-whitespace text; a field is a *)
(* maximal run of non-whitespace atoms.                                    *)
(* Python indices are 0-based, TLA+ sequences 1-based: column i of the     *)
(* code is element i + 1 here.                                             *)
(***************************************************************************)
EXTENDS Integers, Sequences, FiniteSets, TLC

VARIABLES
    \* filter_dat.py: the log, and a run of filter_file
    log,
    flt_pc, flt_in, flt_outdir, flt_pos, flt_out, rows_written, reported,
    \* filter_dat.py: the file system of a batch run, process_file_paths and
    \* merge_filtered_files
    fs, list_file, bat_pc, bat_i, filtered_files, filter_calls, merge_runs,
    mrg_pc, mrg_i, header_written, merged, merged_from,
    \* retype.py
    conv_pc, conv_in, conv_out, conv_pass, conv_exit,
    \* all_ex_out.py / get_bac.py
    variant, join_pc, file_a, file_b, key_to_row_map, ia, ib, join_out, join_exit

convVars == <<conv_pc, conv_in, conv_out, conv_pass, conv_exit>>
joinVars == <<variant, join_pc, file_a, file_b, key_to_row_map, ia, ib,
              join_out, join_exit>>
filterVars == <<flt_pc, flt_in, flt_outdir, flt_pos, flt_out, rows_written,
                reported>>
batchVars == <<list_file, bat_pc, bat_i, filter_calls, merge_runs>>
mergeVars == <<mrg_pc, mrg_i, header_written>>
vars == <<log, fs, filtered_files, merged, merged_from,
          convVars, joinVars, filterVars, batchVars, mergeVars>>

\* What each program leaves alone: the state of the other programs.
filterDat == <<log, fs, filtered_files, merged, merged_from, filterVars, batchVars,
               mergeVars>>
convOthers == <<joinVars, filterDat>>
joinOthers == <<convVars, filterDat>>
filterOthers == <<convVars, joinVars, fs, filtered_files, merged, merged_from,
                  batchVars, mergeVars>>
batchOthers == <<convVars, joinVars, filterVars, mergeVars>>
mergeOthers == <<convVars, joinVars, filterVars, batchVars>>

(***************************************************************************)
(* Bounds of the model.                                                    *)
(***************************************************************************)
MaxLen == 5
MaxPasses == 2
MaxRowsA == 2
MaxRowsB == 2
MaxBody == 3
MaxList == 3
MaxFiles == 3

(***************************************************************************)
(* str.strip, str.split, str.join on sequences of atoms.                   *)
(***************************************************************************)
Whitespace == {" ", "\t", "\n", "\r"}

IsSpace(c) == c \in Whitespace

RECURSIVE lstrip(_)
lstrip(s) ==
    IF s # <<>> /\ IsSpace(Head(s)) THEN lstrip(Tail(s)) ELSE s

RECURSIVE rstrip(_)
rstrip(s) ==
    IF s # <<>> /\ IsSpace(s[Len(s)]) THEN rstrip(SubSeq(s, 1, Len(s) - 1)) ELSE s

strip(s) == rstrip(lstrip(s))

\* Fields of s from position i on; cur is the field being read, acc the
\* fields already closed.
RECURSIVE SplitFrom(_, _, _, _)
SplitFrom(s, i, cur, acc) ==
    IF i > Len(s)
    THEN IF cur = <<>> THEN acc ELSE Append(acc, cur)
    ELSE IF IsSpace(s[i])
         THEN SplitFrom(s, i + 1, <<>>, IF cur = <<>> THEN acc ELSE Append(acc, cur))
         ELSE SplitFrom(s, i + 1, Append(cur, s[i]), acc)

\* s.split(): the maximal runs of non-whitespace atoms.
split(s) == SplitFrom(s, 1, <<>>, <<>>)

\* sep.join(fields)
RECURSIVE join(_, _)
join(sep, fields) ==
    IF fields = <<>> THEN <<>>
    ELSE IF Len(fields) = 1 THEN fields[1]
    ELSE fields[1] \o <<sep>> \o join(sep, Tail(fields))

(***************************************************************************)
(* retype.py                                                               *)
(***************************************************************************)
\* Text-mode reading translates "\r\n" and a lone "\r" to "\n".
RECURSIVE UniversalNewlines(_)
UniversalNewlines(content) ==
    IF content = <<>> THEN <<>>
    ELSE IF Head(content) = "\r"
         THEN IF Len(content) >= 2 /\ content[2] = "\n"
              THEN <<"\n">> \o UniversalNewlines(Tail(Tail(content)))
              ELSE <<"\n">> \o UniversalNewlines(Tail(content))
         ELSE <<Head(content)>> \o UniversalNewlines(Tail(content))

\* `for line in infile`: the lines of the text, each with its terminator; the
\* last line may have none.
RECURSIVE LinesFrom(_, _, _, _)
LinesFrom(text, i, cur, acc) ==
    IF i > Len(text)
    THEN IF cur = <<>> THEN acc ELSE Append(acc, cur)
    ELSE IF text[i] = "\n"
         THEN LinesFrom(text, i + 1, <<>>, Append(acc, Append(cur, "\n")))
         ELSE LinesFrom(text, i + 1, Append(cur, text[i]), acc)

FileLines(content) == LinesFrom(UniversalNewlines(content), 1, <<>>, <<>>)

\* One iteration of the loop of convert_to_tab_delimited: the text written
\* for one input line.
\* The slip "\t".join(line.strip()): the characters are joined, not the fields.
ConvertLineNoSplit(line) ==
    LET stripped == strip(line)
        chars == [i \in 1..Len(stripped) |-> <<stripped[i]>>]
    IN  join("\t", chars) \o <<"\n">>

ConvertLine(line) ==
    LET fields == split(strip(line))
        new_line == join("\t", fields)
    IN  new_line \o <<"\n">>

RECURSIVE ConvertLines(_)
ConvertLines(lines) ==
    IF lines = <<>> THEN <<>>
    ELSE ConvertLine(Head(lines)) \o ConvertLines(Tail(lines))

\* The content of the output file after a successful run on `content`.
convert_to_tab_delimited(content) == ConvertLines(FileLines(content))

ConvAlphabet == {"a", " ", "\t", "\n", "\r"}

RECURSIVE SeqsUpTo(_, _)
SeqsUpTo(S, n) ==
    IF n = 0 THEN {<<>>}
    ELSE LET shorter == SeqsUpTo(S, n - 1)
         IN  shorter \cup {Append(s, x) : s \in {t \in shorter : Len(t) = n - 1}, x \in S}

ConvContents == SeqsUpTo(ConvAlphabet, MaxLen)

\* A path of the file system names nothing, a directory, or a file.
NoFile == [kind |-> "none", content |-> <<>>]
Directory == [kind |-> "dir", content |-> <<>>]
TextFile(content) == [kind |-> "file", content |-> content]

ConvInit ==
    /\ conv_pc = "start"
    /\ conv_in \in {NoFile} \cup {TextFile(c) : c \in ConvContents}
    /\ conv_out = NoFile
    /\ conv_pass = 0
    /\ conv_exit = 0

ConvIdle ==
    /\ conv_pc = "idle"
    /\ conv_in = NoFile
    /\ conv_out = NoFile
    /\ conv_pass = 0
    /\ conv_exit = 0

\* A run of the converter on an existing input file.
ConvertRun ==
    /\ conv_pc = "start"
    /\ conv_in.kind = "file"
    /\ conv_out' = TextFile(convert_to_tab_delimited(conv_in.content))
    /\ conv_pass' = conv_pass + 1
    /\ conv_pc' = "done"
    /\ UNCHANGED <<conv_in, conv_exit>>
    /\ UNCHANGED convOthers

\* open() of a missing input raises IOError: reported, exit status 1.
ConvertFail ==
    /\ conv_pc = "start"
    /\ conv_in.kind = "none"
    /\ conv_pc' = "failed"
    /\ conv_exit' = 1
    /\ UNCHANGED <<conv_in, conv_out, conv_pass>>
    /\ UNCHANGED convOthers

\* The operator runs the converter again, on the file the last run wrote.
ConvertAgain ==
    /\ conv_pc = "done"
    /\ conv_pass < MaxPasses
    /\ conv_in' = conv_out
    /\ conv_pc' = "start"
    /\ UNCHANGED <<conv_out, conv_pass, conv_exit>>
    /\ UNCHANGED convOthers

ConvNext == ConvertRun \/ ConvertFail \/ ConvertAgain

(***************************************************************************)
(* all_ex_out.py (merge_files_based_on_key) and get_bac.py (merge_fun).    *)
(* A file is the sequence of rows csv.reader yields for it; a row is a     *)
(* sequence of fields.  The dictionary is a set of <<key, row>> pairs with *)
(* at most one pair per key.                                               *)
(***************************************************************************)
MinColsA == 3
KeyColA == 2

MinColsB(v) == IF v = "all_ex_out" THEN 5 ELSE 4
KeyColB(v) == IF v = "all_ex_out" THEN 4 ELSE 3

\* key in d
DictHas(d, key) == \E p \in d : p[1] = key

\* d[key], for a key of d
DictGet(d, key) == (CHOOSE p \in d : p[1] = key)[2]

\* d[key] = row
DictPut(d, key, row) == {p \in d : p[1] # key} \cup {<<key, row>>}

\* The slip that keeps the first row of a key: `if key not in d: d[key] = row`.
BuildRowFirstWins(d, row) ==
    IF Len(row) >= MinColsA /\ ~DictHas(d, row[KeyColA + 1])
    THEN DictPut(d, row[KeyColA + 1], row)
    ELSE d

\* One iteration of the loop over file A.
BuildRow(d, row) ==
    IF Len(row) >= MinColsA
    THEN LET key == row[KeyColA + 1] IN DictPut(d, key, row)
    ELSE d

\* The slip of a left join: a row of B with no match is written on its own.
ProbeRowLeftJoin(d, row, v) ==
    IF Len(row) >= MinColsB(v)
    THEN LET key == row[KeyColB(v) + 1]
         IN  IF DictHas(d, key) THEN <<DictGet(d, key) \o row>> ELSE <<row>>
    ELSE <<>>

\* The slip `row + d[key]`: the row of B first.
ProbeRowSwapped(d, row, v) ==
    IF Len(row) >= MinColsB(v)
    THEN LET key == row[KeyColB(v) + 1]
         IN  IF DictHas(d, key) THEN <<row \o DictGet(d, key)>> ELSE <<>>
    ELSE <<>>

\* One iteration of the loop over file B: the rows handed to writer.writerow.
ProbeRow(d, row, v) ==
    IF Len(row) >= MinColsB(v)
    THEN LET key == row[KeyColB(v) + 1]
         IN  IF DictHas(d, key)
             THEN LET merged_row == DictGet(d, key) \o row IN <<merged_row>>
             ELSE <<>>
    ELSE <<>>

JoinKeys == {"K1", "K2"}

RowsA ==
    {<<"x", "y">>, <<"x", "y", "K1">>}
        \cup {<<"x", "y", k, v>> : k \in JoinKeys, v \in {"v1", "v2"}}

RowsB ==
    {<<"p", "q", "r">>}
        \cup {<<"p", "q", "r", k>> : k \in JoinKeys}
        \cup {<<"p", "q", "r", k1, k2>> : k1 \in JoinKeys, k2 \in JoinKeys}

JoinInit ==
    /\ variant \in {"all_ex_out", "get_bac"}
    /\ join_pc = "start"
    /\ file_a \in {NoFile} \cup {TextFile(r) : r \in SeqsUpTo(RowsA, MaxRowsA)}
    /\ file_b \in {NoFile} \cup {TextFile(r) : r \in SeqsUpTo(RowsB, MaxRowsB)}
    /\ key_to_row_map = {}
    /\ ia = 0
    /\ ib = 0
    /\ join_out = NoFile
    /\ join_exit = 0

JoinIdle ==
    /\ variant = "none"
    /\ join_pc = "idle"
    /\ file_a = NoFile
    /\ file_b = NoFile
    /\ key_to_row_map = {}
    /\ ia = 0
    /\ ib = 0
    /\ join_out = NoFile
    /\ join_exit = 0

\* open(file_a) succeeds.
JoinOpenA ==
    /\ join_pc = "start"
    /\ file_a.kind = "file"
    /\ join_pc' = "build"
    /\ UNCHANGED <<variant, file_a, file_b, key_to_row_map, ia, ib, join_out, join_exit>>
    /\ UNCHANGED joinOthers

\* open(file_a) raises FileNotFoundError: all_ex_out.py reports it and calls
\* sys.exit(1); get_bac.py lets it escape, and the interpreter exits with 1.
JoinFailA ==
    /\ join_pc = "start"
    /\ file_a.kind = "none"
    /\ join_pc' = "failed"
    /\ join_exit' = 1
    /\ UNCHANGED <<variant, file_a, file_b, key_to_row_map, ia, ib, join_out>>
    /\ UNCHANGED joinOthers

\* The next row of file A.
JoinBuildRow ==
    /\ join_pc = "build"
    /\ ia < Len(file_a.content)
    /\ key_to_row_map' = BuildRow(key_to_row_map, file_a.content[ia + 1])
    /\ ia' = ia + 1
    /\ UNCHANGED <<variant, join_pc, file_a, file_b, ib, join_out, join_exit>>
    /\ UNCHANGED joinOthers

\* File A is read; open(file_b) succeeds and the output file is created.
JoinOpenB ==
    /\ join_pc = "build"
    /\ ia = Len(file_a.content)
    /\ file_b.kind = "file"
    /\ join_out' = TextFile(<<>>)
    /\ join_pc' = "probe"
    /\ UNCHANGED <<variant, file_a, file_b, key_to_row_map, ia, ib, join_exit>>
    /\ UNCHANGED joinOthers

\* File A is read; open(file_b) raises before the output file is opened.
JoinFailB ==
    /\ join_pc = "build"
    /\ ia = Len(file_a.content)
    /\ file_b.kind = "none"
    /\ join_pc' = "failed"
    /\ join_exit' = 1
    /\ UNCHANGED <<variant, file_a, file_b, key_to_row_map, ia, ib, join_out>>
    /\ UNCHANGED joinOthers

\* The next row of file B.
JoinProbeRow ==
    /\ join_pc = "probe"
    /\ ib < Len(file_b.content)
    /\ join_out' = TextFile(join_out.content
                            \o ProbeRow(key_to_row_map, file_b.content[ib + 1], variant))
    /\ ib' = ib + 1
    /\ UNCHANGED <<variant, join_pc, file_a, file_b, key_to_row_map, ia, join_exit>>
    /\ UNCHANGED joinOthers

\* File B is read: the files are closed and completion is printed.
JoinDone ==
    /\ join_pc = "probe"
    /\ ib = Len(file_b.content)
    /\ join_pc' = "done"
    /\ UNCHANGED <<variant, file_a, file_b, key_to_row_map, ia, ib, join_out, join_exit>>
    /\ UNCHANGED joinOthers

JoinNext ==
    \/ JoinOpenA
    \/ JoinFailA
    \/ JoinBuildRow
    \/ JoinOpenB
    \/ JoinFailB
    \/ JoinProbeRow
    \/ JoinDone

(***************************************************************************)
(* filter_dat.py: filter_file.                                             *)
(* A file is the sequence of its lines, each line a sequence of atoms      *)
(* without its terminator.  A word of a line is one atom, and the lines    *)
(* read here separate their words by whitespace atoms, so a field of       *)
(* split() is a one-atom sequence.  A p-value is an integer count of units *)
(* of 1e-7.                                                                *)
(***************************************************************************)
MinFields == 10
PCol == 9
Threshold == 100
EnumStart == 2

FloatWords == {"0.0000001", "1e-05", "0.1", "nan"}

FloatUnits(w) ==
    CASE w = "0.0000001" -> 1
      [] w = "1e-05" -> 100
      [] w = "0.1" -> 1000000
      [] OTHER -> 0

\* float(field): ok is FALSE where Python raises ValueError.
float(field) ==
    IF Len(field) = 1 /\ field[1] \in FloatWords
    THEN [ok |-> TRUE, nan |-> field[1] = "nan", v |-> FloatUnits(field[1])]
    ELSE [ok |-> FALSE, nan |-> FALSE, v |-> 0]

\* The slip `p_value <= 1e-05`.
AtMostThreshold(p) == ~p.nan /\ p.v <= Threshold

\* p_value < 1e-05; every comparison with nan is false.
BelowThreshold(p) == ~p.nan /\ p.v < Threshold

\* The slip enumerate(infile): numbering from 0.
LineNumberFromZero(j) == j - 1

\* enumerate(infile, start=2): the number of the j-th line after the header.
LineNumber(j) == EnumStart + (j - 1)

\* A record of the log.  line is 0 and value empty where the message has none;
\* count is the row count of the "Finished processing" message.
LogRecord(level, path, line, reason, value, count) ==
    [level |-> level, path |-> path, line |-> line, reason |-> reason,
     value |-> value, count |-> count]

log_skipped_line(line_number, filepath, reason, value) ==
    LogRecord("WARNING", filepath, line_number, reason, value, 0)

\* infile.readline().strip(); readline() of an empty file is "".
ReadHeader(content) == strip(IF content = <<>> THEN <<>> ELSE content[1])

\* The slip that writes the header without counting it.
WriteHeaderUncounted(st, header) ==
    IF header # <<>> THEN [st EXCEPT !.out = Append(@, header)] ELSE st

\* `if header:` write it and count it.  st is the state of one run of
\* filter_file: [out: lines written, rows: rows_written, log: records logged].
WriteHeader(st, header) ==
    IF header # <<>>
    THEN [st EXCEPT !.out = Append(@, header), !.rows = @ + 1]
    ELSE st

\* One iteration of the loop over the lines after the header.
FilterLine(st, line0, line_number, path) ==
    LET line == strip(line0)
    IN  IF line = <<>> THEN st
        ELSE LET parts == split(line)
             IN  IF Len(parts) < MinFields
                 THEN [st EXCEPT !.log = Append(@,
                          log_skipped_line(line_number, path, "less than 10 columns", <<>>))]
                 ELSE LET p_value == float(parts[PCol + 1])
                      IN  IF ~p_value.ok
                          THEN [st EXCEPT !.log = Append(@,
                                   log_skipped_line(line_number, path,
                                       "cannot convert to float", parts[PCol + 1]))]
                          ELSE IF BelowThreshold(p_value)
                               THEN [st EXCEPT !.out = Append(@, line), !.rows = @ + 1]
                               ELSE st

\* The loop over the lines after the header, from the j-th of them on.
RECURSIVE FilterLoop(_, _, _, _)
FilterLoop(st, content, j, path) ==
    IF j + 1 > Len(content) THEN st
    ELSE FilterLoop(FilterLine(st, content[j + 1], LineNumber(j), path), content, j + 1, path)

\* What opening the files does: "ok", or the exception filter_file catches.
\* The input is validated first, then the output directory, then the input is
\* opened (a directory raises IsADirectoryError, an IOError).
FilterOpenStatus(in, outdir) ==
    IF in.kind = "none" THEN "File not found"
    ELSE IF ~outdir THEN "File not found"
    ELSE IF in.kind = "dir" THEN "IO error"
    ELSE "ok"

\* A whole run of filter_file: [status, out: the output file, rows, log].
filter_file(in, outdir, path) ==
    LET status == FilterOpenStatus(in, outdir)
    IN  IF status # "ok"
        THEN [status |-> status, out |-> NoFile, rows |-> 0,
              log |-> <<LogRecord("ERROR", path, 0, status, <<>>, 0)>>]
        ELSE LET st0 == WriteHeader([out |-> <<>>, rows |-> 0, log |-> <<>>],
                                    ReadHeader(in.content))
                 st == FilterLoop(st0, in.content, 1, path)
             IN  [status |-> "ok", out |-> TextFile(st.out), rows |-> st.rows,
                  log |-> Append(st.log,
                      LogRecord("INFO", path, 0, "Finished processing", <<>>, st.rows))]

\* The words of a line, joined by single spaces.
Words(ws) == join(" ", [i \in 1..Len(ws) |-> <<ws[i]>>])

Nine == <<"a", "b", "c", "d", "e", "f", "g", "h", "i">>
HeaderLine == Words(<<"h0", "h1", "h2", "h3", "h4", "h5", "h6", "h7", "h8", "P">>)
DataLine(p) == Words(Append(Nine, p))
ScenarioLine == Words(Nine \o <<"0.0000001", "extra">>)
EightFields == Words(SubSeq(Nine, 1, 8))
PaddedLine == <<" ">> \o Words(SubSeq(Nine, 1, 8)) \o <<" ", "\t">> \o Words(<<"i", "0.0000001">>) \o <<"\t">>

FilterHeaders == {HeaderLine, <<>>, DataLine("0.0000001")}

FilterBodyLines ==
    {DataLine(p) : p \in {"0.0000001", "1e-05", "0.1", "NA", "nan"}}
        \cup {ScenarioLine, EightFields, Words(Nine), PaddedLine, <<>>, <<" ", "\t">>}

FilterContents ==
    {<<>>} \cup {<<h>> \o b : h \in FilterHeaders, b \in SeqsUpTo(FilterBodyLines, MaxBody)}

InputPath == [stem |-> "a", suffix |-> ".dat"]

FilterInit ==
    /\ flt_pc = "start"
    /\ flt_in \in {NoFile, Directory} \cup {TextFile(c) : c \in FilterContents}
    /\ flt_outdir \in BOOLEAN
    /\ flt_pos = 0
    /\ flt_out = NoFile
    /\ rows_written = 0
    /\ reported = -1

FilterIdle ==
    /\ flt_pc = "idle"
    /\ flt_in = NoFile
    /\ flt_outdir = FALSE
    /\ flt_pos = 0
    /\ flt_out = NoFile
    /\ rows_written = 0
    /\ reported = -1

\* The files open; the header is read and, when not blank, written.
FilterOpen ==
    /\ flt_pc = "start"
    /\ FilterOpenStatus(flt_in, flt_outdir) = "ok"
    /\ LET st == WriteHeader([out |-> <<>>, rows |-> 0, log |-> log],
                             ReadHeader(flt_in.content))
       IN  /\ flt_out' = TextFile(st.out)
           /\ rows_written' = st.rows
    /\ flt_pos' = IF flt_in.content = <<>> THEN 0 ELSE 1
    /\ flt_pc' = "loop"
    /\ UNCHANGED <<flt_in, flt_outdir, reported, log>>
    /\ UNCHANGED filterOthers

\* Opening raises; the exception is caught and logged, nothing is written.
FilterFail ==
    /\ flt_pc = "start"
    /\ FilterOpenStatus(flt_in, flt_outdir) # "ok"
    /\ log' = Append(log, LogRecord("ERROR", InputPath, 0,
                                    FilterOpenStatus(flt_in, flt_outdir), <<>>, 0))
    /\ flt_pc' = "caught"
    /\ UNCHANGED <<flt_in, flt_outdir, flt_pos, flt_out, rows_written, reported>>
    /\ UNCHANGED filterOthers

\* The next line after the header.
FilterNextLine ==
    /\ flt_pc = "loop"
    /\ flt_pos < Len(flt_in.content)
    /\ LET st == FilterLine([out |-> flt_out.content, rows |-> rows_written, log |-> log],
                            flt_in.content[flt_pos + 1], LineNumber(flt_pos), InputPath)
       IN  /\ flt_out' = TextFile(st.out)
           /\ rows_written' = st.rows
           /\ log' = st.log
    /\ flt_pos' = flt_pos + 1
    /\ UNCHANGED <<flt_pc, flt_in, flt_outdir, reported>>
    /\ UNCHANGED filterOthers

\* The input is exhausted: the files are closed and the row count is logged.
FilterFinish ==
    /\ flt_pc = "loop"
    /\ flt_pos = Len(flt_in.content)
    /\ reported' = rows_written
    /\ log' = Append(log, LogRecord("INFO", InputPath, 0, "Finished processing",
                                    <<>>, rows_written))
    /\ flt_pc' = "done"
    /\ UNCHANGED <<flt_in, flt_outdir, flt_pos, flt_out, rows_written>>
    /\ UNCHANGED filterOthers

FilterNext == FilterOpen \/ FilterFail \/ FilterNextLine \/ FilterFinish

(***************************************************************************)
(* filter_dat.py: merge_filtered_files.                                    *)
(* A path is its stem and suffix; all paths are in one directory.          *)
(***************************************************************************)
PathOf(stem, suffix) == [stem |-> stem, suffix |-> suffix]

\* file_path.parent / f"{base}_filtered{ext if ext else '.txt'}"
FilteredPath(file_path) ==
    LET base == file_path.stem
        ext == file_path.suffix
    IN  PathOf(base \o "_filtered", IF ext # "" THEN ext ELSE ".txt")

InputPaths == {PathOf("a", ".dat"), PathOf("b", ""), PathOf("c", ".txt")}
FilteredPaths == {FilteredPath(p) : p \in InputPaths}
AllPaths == InputPaths \cup FilteredPaths
MergedOutputPath == PathOf("merged_filtered_results", ".txt")

\* The lines k..n of file number k of the list, as <<k, line number>> pairs.
Origins(k, from, to) == [n \in 1..(to - from + 1) |-> <<k, from + n - 1>>]

\* The slip that writes the first line of every file.
MergeFileKeepHeaders(st, file, k) ==
    IF st.error \/ file.kind = "none" THEN st
    ELSE IF file.kind = "dir" THEN [st EXCEPT !.error = TRUE]
    ELSE IF file.content = <<>> THEN st
    ELSE [st EXCEPT !.out = @ \o file.content,
                    !.from = @ \o Origins(k, 1, Len(file.content)),
                    !.header_written = TRUE]

\* The slip that never writes a header: every file gives only lines[1:].
MergeFileNoHeader(st, file, k) ==
    IF st.error \/ file.kind = "none" THEN st
    ELSE IF file.kind = "dir" THEN [st EXCEPT !.error = TRUE]
    ELSE IF file.content = <<>> THEN st
    ELSE [st EXCEPT !.out = @ \o Tail(file.content),
                    !.from = @ \o Origins(k, 2, Len(file.content)),
                    !.header_written = TRUE]

\* One iteration of the loop over filtered_files, for file number k of the
\* list.  st is [out: lines written, from: where each came from,
\* header_written, error: an exception ended the loop].
MergeFile(st, file, k) ==
    IF st.error THEN st
    ELSE IF file.kind = "none" THEN st
    ELSE IF file.kind = "dir" THEN [st EXCEPT !.error = TRUE]
    ELSE LET lines == file.content
         IN  IF lines = <<>> THEN st
             ELSE LET remaining_lines == Tail(lines)
                  IN  IF ~st.header_written
                      THEN [st EXCEPT !.out = @ \o <<lines[1]>> \o remaining_lines,
                                      !.from = @ \o Origins(k, 1, Len(lines)),
                                      !.header_written = TRUE]
                      ELSE [st EXCEPT !.out = @ \o remaining_lines,
                                      !.from = @ \o Origins(k, 2, Len(lines))]

MergeStart ==
    [out |-> <<>>, from |-> <<>>, header_written |-> FALSE, error |-> FALSE]

RECURSIVE MergeLoop(_, _, _, _)
MergeLoop(st, fsys, files, k) ==
    IF k > Len(files) THEN st
    ELSE MergeLoop(MergeFile(st, fsys[files[k]], k), fsys, files, k + 1)

\* The record merge_filtered_files logs when it ends.
MergeLogRecord(error, n) ==
    IF error
    THEN LogRecord("ERROR", MergedOutputPath, 0, "Error merging files", <<>>, 0)
    ELSE LogRecord("INFO", MergedOutputPath, 0, "Merged", <<>>, n)

\* A whole run of merge_filtered_files.
merge_filtered_files(fsys, files) ==
    LET st == MergeLoop(MergeStart, fsys, files, 1)
    IN  [out |-> TextFile(st.out), from |-> st.from,
         log |-> MergeLogRecord(st.error, Len(files))]

MergeLine(w) == <<w>>

MergeContents ==
    {<<>>, <<MergeLine("H1")>>, <<MergeLine("H1"), MergeLine("r1")>>,
     <<MergeLine("H2"), MergeLine("r2"), MergeLine("r3")>>}

MergeFiles == {NoFile, Directory} \cup {TextFile(c) : c \in MergeContents}

MergeInit ==
    /\ mrg_pc = "start"
    /\ mrg_i = 0
    /\ header_written = FALSE
    /\ fs \in {[p \in AllPaths |-> IF p = FilteredPath(PathOf("a", ".dat")) THEN fa
                                    ELSE IF p = FilteredPath(PathOf("b", "")) THEN fb
                                    ELSE IF p = FilteredPath(PathOf("c", ".txt")) THEN fc
                                    ELSE NoFile] :
                  fa \in MergeFiles, fb \in MergeFiles, fc \in MergeFiles}
    /\ filtered_files \in SeqsUpTo(FilteredPaths, MaxFiles)
    /\ merged = NoFile
    /\ merged_from = <<>>
    /\ log = <<>>

MergeIdle ==
    /\ mrg_pc = "idle"
    /\ mrg_i = 0
    /\ header_written = FALSE

\* merged_output_file.open('w')
MergeOpen ==
    /\ mrg_pc = "start"
    /\ merged' = TextFile(<<>>)
    /\ header_written' = FALSE
    /\ mrg_pc' = "loop"
    /\ UNCHANGED <<log, fs, filtered_files, merged_from, mrg_i>>
    /\ UNCHANGED mergeOthers

\* The next file of the list; an exception leaves the loop and is logged.
MergeNextFile ==
    /\ mrg_pc = "loop"
    /\ mrg_i < Len(filtered_files)
    /\ LET st == MergeFile([out |-> merged.content, from |-> merged_from,
                            header_written |-> header_written, error |-> FALSE],
                           fs[filtered_files[mrg_i + 1]], mrg_i + 1)
       IN  /\ merged' = TextFile(st.out)
           /\ merged_from' = st.from
           /\ header_written' = st.header_written
           /\ mrg_pc' = IF st.error THEN "caught" ELSE "loop"
           /\ log' = IF st.error THEN Append(log, MergeLogRecord(TRUE, 0)) ELSE log
    /\ mrg_i' = mrg_i + 1
    /\ UNCHANGED <<fs, filtered_files>>
    /\ UNCHANGED mergeOthers

\* The list is exhausted: the output is closed and the merge is logged.
MergeFinish ==
    /\ mrg_pc = "loop"
    /\ mrg_i = Len(filtered_files)
    /\ log' = Append(log, MergeLogRecord(FALSE, Len(filtered_files)))
    /\ mrg_pc' = "done"
    /\ UNCHANGED <<fs, filtered_files, merged, merged_from, mrg_i, header_written>>
    /\ UNCHANGED mergeOthers

MergeNext == MergeOpen \/ MergeNextFile \/ MergeFinish

(***************************************************************************)
(* filter_dat.py: process_file_paths.                                      *)
(* The list file is the sequence of its stripped lines, each a path or     *)
(* blank.                                                                  *)
(***************************************************************************)
BlankEntry == PathOf("", "")

\* The slip that hands a file to the merge only when filter_file succeeded.
ProcessPathOnlyFiltered(st, file_path) ==
    IF file_path = BlankEntry THEN st
    ELSE IF st.fs[file_path].kind = "none"
    THEN [st EXCEPT !.log = Append(@,
             LogRecord("ERROR", file_path, 0, "not found, skipping", <<>>, 0))]
    ELSE LET output_file == FilteredPath(file_path)
             run == filter_file(st.fs[file_path], TRUE, file_path)
         IN  [fs |-> IF run.status = "ok"
                     THEN [st.fs EXCEPT ![output_file] = run.out] ELSE st.fs,
              log |-> Append(st.log, LogRecord("INFO", file_path, 0, "Processing", <<>>, 0))
                          \o run.log,
              filter_calls |-> Append(st.filter_calls, file_path),
              filtered_files |-> IF run.status = "ok"
                                 THEN Append(st.filtered_files, output_file)
                                 ELSE st.filtered_files]

\* One iteration of the loop over the list file.  st is [fs, log,
\* filter_calls: the paths passed to filter_file, filtered_files].  The
\* output is written beside the input, so its directory exists.
ProcessPath(st, file_path) ==
    IF file_path = BlankEntry THEN st
    ELSE IF st.fs[file_path].kind = "none"
    THEN [st EXCEPT !.log = Append(@,
             LogRecord("ERROR", file_path, 0, "not found, skipping", <<>>, 0))]
    ELSE LET output_file == FilteredPath(file_path)
             run == filter_file(st.fs[file_path], TRUE, file_path)
         IN  [fs |-> IF run.status = "ok"
                     THEN [st.fs EXCEPT ![output_file] = run.out] ELSE st.fs,
              log |-> Append(st.log, LogRecord("INFO", file_path, 0, "Processing", <<>>, 0))
                          \o run.log,
              filter_calls |-> Append(st.filter_calls, file_path),
              filtered_files |-> Append(st.filtered_files, output_file)]

BatchContents ==
    {<<>>,
     <<HeaderLine>>,
     <<HeaderLine, DataLine("0.0000001"), DataLine("0.1")>>,
     <<Words(<<"SNP", "h1", "h2", "h3", "h4", "h5", "h6", "h7", "h8", "pval">>), ScenarioLine>>,
     <<<<>>, DataLine("0.1")>>,
     <<<<>>, PaddedLine>>}

\* What a listed path may name before the run.  Nothing is named by c.txt,
\* and no output of an earlier run is left over.
BatchFiles == {NoFile, Directory} \cup {TextFile(c) : c \in BatchContents}

BatchInit ==
    /\ bat_pc = "start"
    /\ bat_i = 0
    /\ list_file \in {NoFile}
           \cup {TextFile(l) : l \in SeqsUpTo(InputPaths \cup {BlankEntry}, MaxList)}
    /\ fs \in {[p \in AllPaths |-> IF p = PathOf("a", ".dat") THEN fa
                                    ELSE IF p = PathOf("b", "") THEN fb
                                    ELSE NoFile] :
                  fa \in BatchFiles, fb \in BatchFiles}
    /\ filtered_files = <<>>
    /\ filter_calls = <<>>
    /\ merge_runs = 0
    /\ merged = NoFile
    /\ merged_from = <<>>
    /\ log = <<>>

BatchIdle ==
    /\ bat_pc = "idle"
    /\ bat_i = 0
    /\ list_file = NoFile
    /\ filter_calls = <<>>
    /\ merge_runs = 0

\* The list file does not exist: logged, and the function returns.
BatchNoList ==
    /\ bat_pc = "start"
    /\ list_file.kind = "none"
    /\ log' = Append(log, LogRecord("ERROR", BlankEntry, 0, "File paths list does not exist",
                                    <<>>, 0))
    /\ bat_pc' = "returned"
    /\ UNCHANGED <<fs, filtered_files, merged, merged_from, list_file, bat_i,
                   filter_calls, merge_runs>>
    /\ UNCHANGED batchOthers

\* The list file is opened.
BatchOpen ==
    /\ bat_pc = "start"
    /\ list_file.kind = "file"
    /\ bat_pc' = "loop"
    /\ UNCHANGED <<log, fs, filtered_files, merged, merged_from, list_file, bat_i,
                   filter_calls, merge_runs>>
    /\ UNCHANGED batchOthers

\* The next line of the list file.
BatchNextPath ==
    /\ bat_pc = "loop"
    /\ bat_i < Len(list_file.content)
    /\ LET st == ProcessPath([fs |-> fs, log |-> log, filter_calls |-> filter_calls,
                              filtered_files |-> filtered_files],
                             list_file.content[bat_i + 1])
       IN  /\ fs' = st.fs
           /\ log' = st.log
           /\ filter_calls' = st.filter_calls
           /\ filtered_files' = st.filtered_files
    /\ bat_i' = bat_i + 1
    /\ UNCHANGED <<merged, merged_from, list_file, bat_pc, merge_runs>>
    /\ UNCHANGED batchOthers

\* The list is exhausted: merge_filtered_files runs on filtered_files.
BatchMerge ==
    /\ bat_pc = "loop"
    /\ bat_i = Len(list_file.content)
    /\ LET run == merge_filtered_files(fs, filtered_files)
       IN  /\ merged' = run.out
           /\ merged_from' = run.from
           /\ log' = Append(log, run.log)
    /\ merge_runs' = merge_runs + 1
    /\ bat_pc' = "done"
    /\ UNCHANGED <<fs, filtered_files, list_file, bat_i, filter_calls>>
    /\ UNCHANGED batchOthers

BatchNext == BatchNoList \/ BatchOpen \/ BatchNextPath \/ BatchMerge

(***************************************************************************)
(* Specifications, one per program.                                        *)
(***************************************************************************)
FilterDatIdle ==
    /\ log = <<>>
    /\ fs = [p \in AllPaths |-> NoFile]
    /\ filtered_files = <<>>
    /\ merged = NoFile
    /\ merged_from = <<>>
    /\ FilterIdle
    /\ BatchIdle
    /\ MergeIdle

InitConvert == ConvInit /\ JoinIdle /\ FilterDatIdle
SpecConvert == InitConvert /\ [][ConvNext]_vars

InitJoin == JoinInit /\ ConvIdle /\ FilterDatIdle
SpecJoin == InitJoin /\ [][JoinNext]_vars

InitFilter ==
    /\ FilterInit
    /\ log = <<>>
    /\ fs = [p \in AllPaths |-> NoFile]
    /\ filtered_files = <<>>
    /\ merged = NoFile
    /\ merged_from = <<>>
    /\ BatchIdle
    /\ MergeIdle
    /\ ConvIdle
    /\ JoinIdle
SpecFilter == InitFilter /\ [][FilterNext]_vars

InitMerge == MergeInit /\ FilterIdle /\ BatchIdle /\ ConvIdle /\ JoinIdle
SpecMerge == InitMerge /\ [][MergeNext]_vars

InitBatch == BatchInit /\ FilterIdle /\ MergeIdle /\ ConvIdle /\ JoinIdle
SpecBatch == InitBatch /\ [][BatchNext]_vars


(***************************************************************************)
(* Properties of the row-join (SpecJoin).                                  *)
(***************************************************************************)
RowsOfA == file_a.content
RowsOfB == file_b.content
Joined == join_out.content

QualifiesA(i) == Len(RowsOfA[i]) >= 3
KeysOfA == {RowsOfA[i][3] : i \in {i \in 1..Len(RowsOfA) : QualifiesA(i)}}

\* The key of row j of B: field 4 in all_ex_out.py, field 3 in get_bac.py.
KeyPosB == IF variant = "all_ex_out" THEN 5 ELSE 4
QualifiesB(j) == Len(RowsOfB[j]) >= KeyPosB
MatchesB(j) == QualifiesB(j) /\ RowsOfB[j][KeyPosB] \in KeysOfA

\* The rows of B among the first n that qualify and match, in B's order.
RECURSIVE MatchingUpTo(_)
MatchingUpTo(n) ==
    IF n = 0 THEN <<>>
    ELSE IF MatchesB(n) THEN Append(MatchingUpTo(n - 1), n) ELSE MatchingUpTo(n - 1)

Suffix(row, n) == SubSeq(row, Len(row) - n + 1, Len(row))

\* The last qualifying row of A with key k.
LatestA(k) ==
    RowsOfA[CHOOSE i \in 1..Len(RowsOfA) :
               /\ QualifiesA(i) /\ RowsOfA[i][3] = k
               /\ \A j \in (i + 1)..Len(RowsOfA) : ~(QualifiesA(j) /\ RowsOfA[j][3] = k)]

\* C1: the output rows are, in B's order, one row for each row of B read so
\* far that has the minimum column count and whose key is a key of A, each
\* ending with that row of B; no other row of B gives an output row; and when
\* the join is done every row of B has been read.
JoinCompleteInOrder ==
    join_pc \in {"probe", "done"} =>
        LET m == MatchingUpTo(ib)
        IN  /\ Len(Joined) = Len(m)
            /\ \A n \in 1..Len(m) :
                   /\ Len(Joined[n]) >= Len(RowsOfB[m[n]])
                   /\ Suffix(Joined[n], Len(RowsOfB[m[n]])) = RowsOfB[m[n]]
            /\ join_pc = "done" => ib = Len(RowsOfB)

\* A file B of a row whose key is not a key of A and then a row whose key is
\* one has been joined into one row.
JoinCompleteWitness ==
    /\ join_pc = "done"
    /\ Len(RowsOfB) = 2
    /\ Len(Joined) = 1
    /\ QualifiesB(1) /\ ~MatchesB(1)
    /\ MatchesB(2)

ScenarioA == <<<<"x", "y", "K1", "v1">>, <<"x", "y", "K2", "v2">>>>
ScenarioB == <<<<"p", "q", "r", "K1">>>>

\* C2: every output row is a row of A followed by a row of B whose key
\* columns agree (column 2 of A; column 4 of B in all_ex_out.py, column 3 in
\* get_bac.py); and the scenario of the specification, joined by get_bac.py,
\* gives the one row x y K1 v1 p q r K1.
JoinRowsAgreeOnKey ==
    /\ join_pc \in {"probe", "done"} =>
           \A n \in 1..Len(Joined) :
               \E i \in 1..Len(RowsOfA), j \in 1..Len(RowsOfB) :
                   /\ Joined[n] = RowsOfA[i] \o RowsOfB[j]
                   /\ Len(RowsOfA[i]) >= 3
                   /\ Len(RowsOfB[j]) >= (IF variant = "all_ex_out" THEN 5 ELSE 4)
                   /\ RowsOfA[i][3] = RowsOfB[j][IF variant = "all_ex_out" THEN 5 ELSE 4]
    /\ (join_pc = "done" /\ variant = "get_bac" /\ RowsOfA = ScenarioA /\ RowsOfB = ScenarioB)
           => Joined = <<<<"x", "y", "K1", "v1", "p", "q", "r", "K1">>>>

\* The scenario has been joined by get_bac.py.
JoinScenarioWitness ==
    /\ join_pc = "done"
    /\ variant = "get_bac"
    /\ RowsOfA = ScenarioA
    /\ RowsOfB = ScenarioB
    /\ Len(Joined) = 1

\* C3: once file A is read, the index holds, for every key of a qualifying
\* row of A, exactly the last such row, and every output row starts with the
\* last row of A that has the key of its row of B.
JoinLastWriteWins ==
    join_pc \in {"probe", "done"} =>
        /\ key_to_row_map = {<<k, LatestA(k)>> : k \in KeysOfA}
        /\ LET m == MatchingUpTo(ib)
           IN  /\ Len(Joined) = Len(m)
               /\ \A n \in 1..Len(m) :
                      Joined[n] = LatestA(RowsOfB[m[n]][KeyPosB]) \o RowsOfB[m[n]]

\* Two different qualifying rows of A share a key, and a row has been joined
\* on that key.
JoinLastWriteWitness ==
    /\ join_pc = "done"
    /\ Len(RowsOfA) = 2
    /\ QualifiesA(1) /\ QualifiesA(2)
    /\ RowsOfA[1][3] = RowsOfA[2][3]
    /\ RowsOfA[1] # RowsOfA[2]
    /\ Len(Joined) >= 1
    /\ Joined[1] = RowsOfA[2] \o RowsOfB[MatchingUpTo(ib)[1]]

(***************************************************************************)
(* Properties of filter_file (SpecFilter).                                 *)
(***************************************************************************)
InLines == flt_in.content
OutLines == flt_out.content

NonBlank(line) == \E i \in 1..Len(line) : line[i] \notin {" ", "\t"}

\* 1 when the first line of the input is not blank, and so is written.
HeaderRows == IF InLines # <<>> /\ NonBlank(InLines[1]) THEN 1 ELSE 0

\* At least 10 fields, and field 9 a number strictly below 1e-5 (100 units).
Satisfies(line) ==
    LET fields == split(line)
    IN  /\ Len(fields) >= 10
        /\ LET p == float(fields[10]) IN p.ok /\ ~p.nan /\ p.v < 100

\* The number of lines 2..n of the input that satisfy the predicate.
SatisfyingUpTo(n) == Cardinality({i \in 2..n : Satisfies(InLines[i])})

\* The text of a line without its leading and trailing whitespace.
Trimmed(line) ==
    LET idx == {i \in 1..Len(line) : line[i] \notin {" ", "\t"}}
    IN  IF idx = {} THEN <<>>
        ELSE SubSeq(line, CHOOSE i \in idx : \A j \in idx : i <= j,
                          CHOOSE i \in idx : \A j \in idx : i >= j)

\* C4: every output line other than the header has at least 10 fields and a
\* field 9 that is a number strictly below 1e-5; an input line that has fewer
\* than 10 fields, or whose field 9 is not a number or is 1e-5 or more, is
\* not written: the output holds as many lines after the header as there are
\* satisfying lines among those read.
FilterThreshold ==
    flt_pc \in {"loop", "done"} =>
        /\ \A k \in (HeaderRows + 1)..Len(OutLines) : Satisfies(OutLines[k])
        /\ Len(OutLines) = HeaderRows + SatisfyingUpTo(flt_pos)
        /\ \A i \in 2..flt_pos :
               ~Satisfies(InLines[i]) =>
                   \A k \in (HeaderRows + 1)..Len(OutLines) : OutLines[k] # Trimmed(InLines[i])

\* A file with a line at the threshold, a line whose field 9 is not a number
\* and a line below the threshold has been filtered to a header and one line.
FilterThresholdWitness ==
    /\ flt_pc = "done"
    /\ InLines = <<HeaderLine, DataLine("1e-05"), DataLine("NA"), ScenarioLine>>
    /\ OutLines = <<HeaderLine, ScenarioLine>>

\* C5 as claimed: the reported count is 1 plus the number of satisfying body
\* lines, for every file processed to completion.
FilterCountAlwaysCountsHeader ==
    flt_pc = "done" => reported = 1 + SatisfyingUpTo(Len(InLines))

\* C5, amended: the reported count is the number of satisfying body lines,
\* plus 1 when the first line of the input is not blank (an empty file, or a
\* blank first line, gives no header and none is counted).
FilterCountAccounting ==
    flt_pc = "done" => reported = HeaderRows + SatisfyingUpTo(Len(InLines))

\* A file with a blank first line, a satisfying line and a line that does not
\* satisfy has been processed to completion, and one row is reported.
FilterCountWitness ==
    /\ flt_pc = "done"
    /\ InLines = <<<<>>, ScenarioLine, DataLine("0.1")>>
    /\ reported = 1

\* The warnings logged for line number n.
WarningsFor(n) ==
    {k \in 1..Len(log) : log[k].level = "WARNING" /\ log[k].line = n}

\* C8 as claimed: every line after the first with fewer than 10 fields is
\* logged with its line number.
FilterLogsEveryShortLine ==
    flt_pc \in {"loop", "done"} =>
        \A i \in 2..flt_pos :
            Len(split(InLines[i])) < 10 => WarningsFor(i) # {}

\* C8, amended: every line after the first that is not blank and has fewer
\* than 10 fields is not written and is logged once, as a warning with its
\* 1-based line number, the source path and the reason; a blank line is
\* skipped without a warning; and the loop goes on to the end of the input.
FilterShortRows ==
    flt_pc \in {"loop", "done"} =>
        /\ \A i \in 2..flt_pos :
               LET n == Len(split(InLines[i]))
               IN  /\ (0 < n /\ n < 10) =>
                          /\ Cardinality(WarningsFor(i)) = 1
                          /\ \A k \in WarningsFor(i) :
                                 /\ log[k].path = InputPath
                                 /\ log[k].reason = "less than 10 columns"
                          /\ \A k \in (HeaderRows + 1)..Len(OutLines) :
                                 OutLines[k] # Trimmed(InLines[i])
                   /\ n = 0 => WarningsFor(i) = {}
        /\ \A k \in 1..Len(log) : log[k].level = "WARNING" => log[k].line \in 2..flt_pos
        /\ flt_pc = "done" => flt_pos = Len(InLines)

\* A short line at line 2 has been logged and the line after it written.
FilterShortRowsWitness ==
    /\ flt_pc = "done"
    /\ InLines = <<HeaderLine, EightFields, ScenarioLine>>
    /\ OutLines = <<HeaderLine, ScenarioLine>>
    /\ Len(log) = 2
    /\ log[1].line = 2

(***************************************************************************)
(* Property of the tab converter (SpecConvert).                            *)
(***************************************************************************)
\* C9: a run of the converter on the output of a run writes that same
\* content.
ConvertIdempotent ==
    (conv_pc = "done" /\ conv_pass >= 2) => conv_out.content = conv_in.content

\* The converter has run on its own output, which came from a file with two
\* fields on a line and a blank line.
ConvertIdempotentWitness ==
    /\ conv_pc = "done"
    /\ conv_pass = 2
    /\ conv_out.content = <<"a", "\t", "a", "\n", "\n">>

(***************************************************************************)
(* Properties of merge_filtered_files (SpecMerge) and of the batch run     *)
(* (SpecBatch).                                                            *)
(***************************************************************************)
ListedFile(k) == fs[filtered_files[k]]

\* File number k of the list exists and is not empty.
Contributes(k) == ListedFile(k).kind = "file" /\ ListedFile(k).content # <<>>

\* The lines after line 1 of the contributing files among numbers k..n.
RECURSIVE BodiesOf(_, _)
BodiesOf(k, n) ==
    IF k > n THEN <<>>
    ELSE (IF Contributes(k) THEN Tail(ListedFile(k).content) ELSE <<>>) \o BodiesOf(k + 1, n)

\* The number of the first contributing file among the first n, or 0.
FirstContributing(n) ==
    IF \E k \in 1..n : Contributes(k)
    THEN CHOOSE k \in 1..n : Contributes(k) /\ \A j \in 1..(k - 1) : ~Contributes(j)
    ELSE 0

\* C7: while no exception has ended the merge, the output is line 1 of the
\* first existing non-empty file read so far, followed by the lines after
\* line 1 of every existing non-empty file read so far, in list order;
\* nonexistent and empty files add nothing, and when the merge is done every
\* file of the list has been read.
MergeExact ==
    mrg_pc \in {"loop", "done"} =>
        /\ LET first == FirstContributing(mrg_i)
           IN  merged.content =
                   (IF first = 0 THEN <<>> ELSE <<ListedFile(first).content[1]>>)
                       \o BodiesOf(1, mrg_i)
        /\ mrg_pc = "done" => mrg_i = Len(filtered_files)

\* A list whose first file does not exist, whose second is empty and whose
\* third has three lines has been merged into those three lines.
MergeExactWitness ==
    /\ mrg_pc = "done"
    /\ Len(filtered_files) = 3
    /\ ListedFile(1).kind = "none"
    /\ ListedFile(2) = TextFile(<<>>)
    /\ Len(ListedFile(3).content) = 3
    /\ merged.content = ListedFile(3).content

\* How often line 1 of file number k of the list was written.
HeaderCopies(k) ==
    Cardinality({n \in 1..Len(merged_from) : merged_from[n] = <<k, 1>>})

\* Every line of the output is the line of the listed file it was read from.
MergedFromListed ==
    /\ Len(merged_from) = Len(merged.content)
    /\ \A n \in 1..Len(merged_from) :
           /\ merged_from[n][1] \in 1..Len(filtered_files)
           /\ ListedFile(merged_from[n][1]).kind = "file"
           /\ merged_from[n][2] \in 1..Len(ListedFile(merged_from[n][1]).content)
           /\ merged.content[n] = ListedFile(merged_from[n][1]).content[merged_from[n][2]]

\* C6 as claimed: when every listed input was filtered into a file, line 1
\* of the first filtered file (if it has a line) is written exactly once and
\* line 1 of no other file is written.
MergeHeaderOfFirstFile ==
    (/\ bat_pc = "done"
     /\ filtered_files # <<>>
     /\ \A k \in 1..Len(filtered_files) : ListedFile(k).kind = "file")
        => /\ ListedFile(1).content # <<>> => HeaderCopies(1) = 1
           /\ \A k \in 2..Len(filtered_files) : HeaderCopies(k) = 0

\* C6, amended: line 1 of the first filtered file that exists and is not
\* empty is written exactly once, as the first line of the output, and line 1
\* of no other file is written (an empty filtered file, as an empty input
\* gives, has no header line, and the next file's is used).
MergeHeaderOfFirstNonEmpty ==
    bat_pc = "done" =>
        /\ MergedFromListed
        /\ LET first == FirstContributing(Len(filtered_files))
           IN  /\ \A k \in 1..Len(filtered_files) :
                      HeaderCopies(k) = IF k = first THEN 1 ELSE 0
               /\ first # 0 => merged_from[1] = <<first, 1>>

\* The filtered file of an empty input and, after it, a filtered file with a
\* header and a row were merged: the header written is that of the second.
MergeHeaderWitness ==
    /\ bat_pc = "done"
    /\ Len(filtered_files) = 2
    /\ ListedFile(1) = TextFile(<<>>)
    /\ Len(ListedFile(2).content) = 2
    /\ HeaderCopies(2) = 1
    /\ merged.content = <<HeaderLine, DataLine("0.0000001")>>

\* The `_filtered` path of a listed input.
FilteredName(p) ==
    CASE p = PathOf("a", ".dat") -> PathOf("a_filtered", ".dat")
      [] p = PathOf("b", "") -> PathOf("b_filtered", ".txt")
      [] p = PathOf("c", ".txt") -> PathOf("c_filtered", ".txt")

Listed == list_file.content

\* The first n listed paths that are not blank and exist, in list order.
RECURSIVE ExistingUpTo(_)
ExistingUpTo(n) ==
    IF n = 0 THEN <<>>
    ELSE IF Listed[n] # BlankEntry /\ fs[Listed[n]].kind # "none"
         THEN Append(ExistingUpTo(n - 1), Listed[n])
         ELSE ExistingUpTo(n - 1)

\* The records of the log with this level, path and reason.
Logged(level, path, reason) ==
    {k \in 1..Len(log) :
        log[k].level = level /\ log[k].path = path /\ log[k].reason = reason}

\* How often p is among the first n listed paths.
TimesListed(p, n) == Cardinality({i \in 1..n : Listed[i] = p})

\* C10: in a batch run over an existing list, each listed path that does not
\* exist is logged once per listing and skipped; the paths passed to
\* filter_file are the existing listed paths read so far, in list order,
\* whatever came before them; a filter_file failure (here a listed directory)
\* is logged and skipped over; the paths for the merge are the `_filtered`
\* paths of the existing listed paths in list order; and the merge has run
\* once when the run is done, after the whole list was read, and not before.
BatchRecoverable ==
    bat_pc \in {"loop", "done"} =>
        /\ filter_calls = ExistingUpTo(bat_i)
        /\ filtered_files = [n \in 1..Len(ExistingUpTo(bat_i)) |->
                                FilteredName(ExistingUpTo(bat_i)[n])]
        /\ \A p \in InputPaths :
               /\ fs[p].kind = "none" =>
                      Cardinality(Logged("ERROR", p, "not found, skipping"))
                          = TimesListed(p, bat_i)
               /\ fs[p].kind = "dir" =>
                      Cardinality(Logged("ERROR", p, "IO error")) = TimesListed(p, bat_i)
               /\ fs[p].kind = "file" =>
                      Cardinality(Logged("INFO", p, "Finished processing"))
                          = TimesListed(p, bat_i)
        /\ bat_pc = "loop" => merge_runs = 0
        /\ bat_pc = "done" => (bat_i = Len(Listed) /\ merge_runs = 1)

\* A list of a missing path, a directory and a file has been run: the
\* directory and the file were passed to filter_file, and the file's rows
\* were merged.
BatchRecoverableWitness ==
    /\ bat_pc = "done"
    /\ Listed = <<PathOf("c", ".txt"), PathOf("a", ".dat"), PathOf("b", "")>>
    /\ fs[PathOf("a", ".dat")].kind = "dir"
    /\ fs[PathOf("b", "")].kind = "file"
    /\ filtered_files = <<PathOf("a_filtered", ".dat"), PathOf("b_filtered", ".txt")>>
    /\ Len(merged.content) = 2

=============================================================================
